---------------------------- MODULE Spec2Model ----------------------------
(***************************************************************************)
(* Model of the browser automation agent:                                  *)
(*   src/src/stage_hand_tool.py  the bridge browser_automation and the     *)
(*                               child script it generates                 *)
(*   src/src/agent.py            the Streamlit trigger and the three-stage *)
(*                               BrowserAutomationFlow                     *)
(*                                                                         *)
(* A text is a sequence of atoms.  An atom is a TLA+ string standing for   *)
(* one character (a quote, a backslash, a newline, a letter) or for one    *)
(* indivisible run of ordinary characters (a fixed message of the program, *)
(* a JSON key).  Payload alphabets never spell a multi-character atom, so  *)
(* equal texts have equal representations.                                 *)
(***************************************************************************)
EXTENDS Integers, Sequences, FiniteSets, TLC

(***************************************************************************)
(* Characters and str methods                                              *)
(***************************************************************************)
QUOTE == "\""
BACKSLASH == "\\"
NEWLINE == "\n"
SPACE == " "
TAB == "\t"

\* str.strip() with no argument removes these from both ends.
Whitespace == {SPACE, NEWLINE, TAB}

RECURSIVE LStrip(_)
LStrip(s) ==
    IF s # <<>> /\ Head(s) \in Whitespace THEN LStrip(Tail(s)) ELSE s

RECURSIVE RStrip(_)
RStrip(s) ==
    IF s # <<>> /\ s[Len(s)] \in Whitespace
    THEN RStrip(SubSeq(s, 1, Len(s) - 1))
    ELSE s

Strip(s) == RStrip(LStrip(s))

LowerChar(c) ==
    CASE c = "N" -> "n"
      [] c = "O" -> "o"
      [] c = "E" -> "e"
      [] c = "U" -> "u"
      [] c = "L" -> "l"
      [] c = "A" -> "a"
      [] OTHER -> c

Lower(s) == [i \in 1..Len(s) |-> LowerChar(s[i])]

\* sub in text
Contains(text, sub) ==
    \E i \in 0..(Len(text) - Len(sub)) :
        SubSeq(text, i + 1, i + Len(sub)) = sub

StartsWith(text, pre) ==
    Len(text) >= Len(pre) /\ SubSeq(text, 1, Len(pre)) = pre

\* All sequences over S of length 0..n.
RECURSIVE SeqsUpTo(_, _)
SeqsUpTo(S, n) ==
    IF n = 0 THEN {<<>>}
    ELSE LET shorter == SeqsUpTo(S, n - 1)
         IN  shorter \cup {Append(s, c) : s \in shorter, c \in S}

(***************************************************************************)
(* json.dumps of the child's response dict, and json.loads in the bridge.  *)
(* A decoded value is [t, s, kv]: t the JSON type, s the text of a scalar, *)
(* kv the <<key, value>> pairs of an object or the items of an array.      *)
(***************************************************************************)
JStr(s) == [t |-> "str", s |-> s, kv |-> <<>>]
JBool(b) == [t |-> "bool", s |-> IF b THEN <<"true">> ELSE <<"false">>, kv |-> <<>>]
JNull == [t |-> "null", s |-> <<>>, kv |-> <<>>]
JNum(a) == [t |-> "num", s |-> <<a>>, kv |-> <<>>]
JObj(pairs) == [t |-> "obj", s |-> <<>>, kv |-> pairs]
JArr(items) == [t |-> "arr", s |-> <<>>, kv |-> items]

NumAtoms == {"0", "1", "42"}

\* json.dumps escapes the quote, the backslash and control characters
\* inside a string.
EscapeChar(c) ==
    CASE c = QUOTE -> <<BACKSLASH, QUOTE>>
      [] c = BACKSLASH -> <<BACKSLASH, BACKSLASH>>
      [] c = NEWLINE -> <<BACKSLASH, "n">>
      [] c = TAB -> <<BACKSLASH, "t">>
      [] OTHER -> <<c>>

RECURSIVE EscapeString(_)
EscapeString(s) ==
    IF s = <<>> THEN <<>> ELSE EscapeChar(Head(s)) \o EscapeString(Tail(s))

DumpsString(s) == <<QUOTE>> \o EscapeString(s) \o <<QUOTE>>

\* json.dumps({"success": .., "data": .., "error": ..}): insertion order,
\* separators ", " and ": ".
Dumps(r) ==
    <<"{">> \o DumpsString(<<"success">>) \o <<":", SPACE>>
        \o <<IF r.success THEN "true" ELSE "false">>
        \o <<",", SPACE>> \o DumpsString(<<"data">>) \o <<":", SPACE>>
        \o DumpsString(r.data)
        \o <<",", SPACE>> \o DumpsString(<<"error">>) \o <<":", SPACE>>
        \o DumpsString(r.error)
        \o <<"}">>

\* The decoder's whitespace.
RECURSIVE SkipWs(_, _)
SkipWs(t, i) ==
    IF i <= Len(t) /\ t[i] \in Whitespace THEN SkipWs(t, i + 1) ELSE i

ParseFail == [ok |-> FALSE, val |-> JNull, pos |-> 0]
ParseOk(v, p) == [ok |-> TRUE, val |-> v, pos |-> p]

\* The characters after an opening quote, up to the closing one.
RECURSIVE ParseString(_, _, _)
ParseString(t, i, acc) ==
    IF i > Len(t) THEN ParseFail
    ELSE IF t[i] = QUOTE THEN ParseOk(JStr(acc), i + 1)
    ELSE IF t[i] = BACKSLASH THEN
        IF i + 1 > Len(t) THEN ParseFail
        ELSE IF t[i + 1] \in {QUOTE, BACKSLASH}
             THEN ParseString(t, i + 2, Append(acc, t[i + 1]))
        ELSE IF t[i + 1] = "n" THEN ParseString(t, i + 2, Append(acc, NEWLINE))
        ELSE IF t[i + 1] = "t" THEN ParseString(t, i + 2, Append(acc, TAB))
        ELSE ParseFail
    ELSE IF t[i] \in {NEWLINE, TAB} THEN ParseFail
    ELSE ParseString(t, i + 1, Append(acc, t[i]))

RECURSIVE ParseValue(_, _)
RECURSIVE ParseMembers(_, _, _)
RECURSIVE ParseItems(_, _, _)

\* One JSON value starting at t[i].
ParseValue(t, i) ==
    IF i > Len(t) THEN ParseFail
    ELSE IF t[i] = QUOTE THEN ParseString(t, i + 1, <<>>)
    ELSE IF t[i] = "true" THEN ParseOk(JBool(TRUE), i + 1)
    ELSE IF t[i] = "false" THEN ParseOk(JBool(FALSE), i + 1)
    ELSE IF t[i] = "null" THEN ParseOk(JNull, i + 1)
    ELSE IF t[i] \in NumAtoms THEN ParseOk(JNum(t[i]), i + 1)
    ELSE IF t[i] = "{" THEN
        LET j == SkipWs(t, i + 1)
        IN  IF j <= Len(t) /\ t[j] = "}" THEN ParseOk(JObj(<<>>), j + 1)
            ELSE ParseMembers(t, j, <<>>)
    ELSE IF t[i] = "[" THEN
        LET j == SkipWs(t, i + 1)
        IN  IF j <= Len(t) /\ t[j] = "]" THEN ParseOk(JArr(<<>>), j + 1)
            ELSE ParseItems(t, j, <<>>)
    ELSE ParseFail

\* "key": value pairs from t[i] to the closing brace.
ParseMembers(t, i, acc) ==
    IF i > Len(t) \/ t[i] # QUOTE THEN ParseFail
    ELSE LET k == ParseString(t, i + 1, <<>>)
         IN  IF ~k.ok THEN ParseFail
             ELSE LET c == SkipWs(t, k.pos)
                  IN  IF c > Len(t) \/ t[c] # ":" THEN ParseFail
                      ELSE LET v == ParseValue(t, SkipWs(t, c + 1))
                           IN  IF ~v.ok THEN ParseFail
                               ELSE LET e == SkipWs(t, v.pos)
                                        pairs == Append(acc, <<k.val.s, v.val>>)
                                    IN  IF e > Len(t) THEN ParseFail
                                        ELSE IF t[e] = "}" THEN ParseOk(JObj(pairs), e + 1)
                                        ELSE IF t[e] = ","
                                             THEN ParseMembers(t, SkipWs(t, e + 1), pairs)
                                        ELSE ParseFail

\* Array items from t[i] to the closing bracket.
ParseItems(t, i, acc) ==
    LET v == ParseValue(t, i)
    IN  IF ~v.ok THEN ParseFail
        ELSE LET e == SkipWs(t, v.pos)
                 items == Append(acc, v.val)
             IN  IF e > Len(t) THEN ParseFail
                 ELSE IF t[e] = "]" THEN ParseOk(JArr(items), e + 1)
                 ELSE IF t[e] = "," THEN ParseItems(t, SkipWs(t, e + 1), items)
                 ELSE ParseFail

\* json.loads: one value, surrounded by whitespace only; anything else is
\* a JSONDecodeError (ok = FALSE).
Loads(t) ==
    LET v == ParseValue(t, SkipWs(t, 1))
    IN  IF ~v.ok THEN ParseFail
        ELSE IF SkipWs(t, v.pos) # Len(t) + 1 THEN ParseFail
        ELSE v

(***************************************************************************)
(* Python evaluation of the bridge's expressions on a decoded value.  An   *)
(* evaluation either returns a text or raises an exception with a message. *)
(***************************************************************************)
Return(text) == [kind |-> "return", text |-> text]
Raise(msg) == [kind |-> "raise", text |-> msg]

HasKey(val, key) == \E i \in 1..Len(val.kv) : val.kv[i][1] = <<key>>

\* dict lookup: the last pair with that key.
Lookup(val, key) ==
    LET last == CHOOSE i \in 1..Len(val.kv) :
                    /\ val.kv[i][1] = <<key>>
                    /\ \A j \in (i + 1)..Len(val.kv) : val.kv[j][1] # <<key>>
    IN  val.kv[last][2]

\* str(e) of the exception response[key] raises, <<>> when it raises none.
SubscriptError(val, key) ==
    CASE val.t = "obj" -> IF HasKey(val, key) THEN <<>> ELSE <<"'", key, "'">>
      [] val.t = "str" -> <<"string indices must be integers, not 'str'">>
      [] val.t = "arr" -> <<"list indices must be integers or slices, not str">>
      [] val.t = "num" -> <<"'int' object is not subscriptable">>
      [] val.t = "bool" -> <<"'bool' object is not subscriptable">>
      [] OTHER -> <<"'NoneType' object is not subscriptable">>

\* bool(value)
Truthy(val) ==
    CASE val.t = "bool" -> val.s = <<"true">>
      [] val.t = "num" -> val.s # <<"0">>
      [] val.t = "str" -> val.s # <<>>
      [] val.t = "null" -> FALSE
      [] OTHER -> val.kv # <<>>

RECURSIVE PyRepr(_)
RECURSIVE PyReprItems(_)
RECURSIVE PyReprPairs(_)

\* repr(value); a string's repr is taken to be single-quoted.
PyRepr(val) ==
    CASE val.t = "str" -> <<"'">> \o val.s \o <<"'">>
      [] val.t = "bool" -> IF val.s = <<"true">> THEN <<"True">> ELSE <<"False">>
      [] val.t = "null" -> <<"None">>
      [] val.t = "num" -> val.s
      [] val.t = "arr" -> <<"[">> \o PyReprItems(val.kv) \o <<"]">>
      [] OTHER -> <<"{">> \o PyReprPairs(val.kv) \o <<"}">>

PyReprItems(items) ==
    IF items = <<>> THEN <<>>
    ELSE PyRepr(Head(items))
            \o (IF Len(items) > 1 THEN <<",", SPACE>> ELSE <<>>)
            \o PyReprItems(Tail(items))

PyReprPairs(pairs) ==
    IF pairs = <<>> THEN <<>>
    ELSE <<"'">> \o Head(pairs)[1] \o <<"'", ":", SPACE>> \o PyRepr(Head(pairs)[2])
            \o (IF Len(pairs) > 1 THEN <<",", SPACE>> ELSE <<>>)
            \o PyReprPairs(Tail(pairs))

\* str(value), as an f-string formats it.
PyStr(val) == IF val.t = "str" THEN val.s ELSE PyRepr(val)

(***************************************************************************)
(* stage_hand_tool.py: the texts browser_automation returns                *)
(***************************************************************************)
SuccessWording == <<"Browser Automation Success:">>
FailedWording == <<"Browser Automation Failed:">>

\* SuccessText with the payload stripped of surrounding whitespace.
SuccessText_Stripped(data) ==
    <<"Browser Automation Success:", BACKSLASH, "n">> \o Strip(data)

\* f"Browser Automation Success:\\n{response['data']}": the source escapes
\* the backslash, so a backslash and an n follow the colon.
SuccessText(data) == SuccessWording \o <<BACKSLASH, "n">> \o data

FailedText(error) == FailedWording \o <<SPACE>> \o error

OutputText(raw) == <<"Browser Automation Output: ">> \o raw

\* ProcessErrorText reporting the exit code whatever stderr holds.
ProcessErrorText_CodeOnly(stderr_text, rc) ==
    <<"Process Error: ", "Process exited with code ", ToString(rc)>>

ProcessErrorText(stderr_text, rc) ==
    LET error_msg == IF stderr_text # <<>> THEN stderr_text
                     ELSE <<"Process exited with code ", ToString(rc)>>
    IN  <<"Process Error: ">> \o error_msg

TimeoutText == <<"Error: Browser automation timed out after 3 minutes">>

SubprocessErrorText(msg) == <<"Subprocess Error: ">> \o msg

\* ParseResponse whose failure branch formats response['data'].
ParseResponse_ErrorFromData(stripped) ==
    LET p == Loads(stripped)
    IN  IF ~p.ok THEN Return(OutputText(stripped))
        ELSE IF SubscriptError(p.val, "success") # <<>>
             THEN Raise(SubscriptError(p.val, "success"))
        ELSE IF SubscriptError(p.val, "data") # <<>>
             THEN Raise(SubscriptError(p.val, "data"))
        ELSE IF Truthy(Lookup(p.val, "success"))
             THEN Return(SuccessText(PyStr(Lookup(p.val, "data"))))
        ELSE Return(FailedText(PyStr(Lookup(p.val, "data"))))

\* The inner try of lines 124-131: only JSONDecodeError is caught there.
ParseResponse(stripped) ==
    LET p == Loads(stripped)
    IN  IF ~p.ok THEN Return(OutputText(stripped))
        ELSE IF SubscriptError(p.val, "success") # <<>>
             THEN Raise(SubscriptError(p.val, "success"))
        ELSE IF Truthy(Lookup(p.val, "success"))
             THEN IF SubscriptError(p.val, "data") # <<>>
                  THEN Raise(SubscriptError(p.val, "data"))
                  ELSE Return(SuccessText(PyStr(Lookup(p.val, "data"))))
        ELSE IF SubscriptError(p.val, "error") # <<>>
             THEN Raise(SubscriptError(p.val, "error"))
        ELSE Return(FailedText(PyStr(Lookup(p.val, "error"))))

\* Lines 123-134, once subprocess.run has returned.
HandleResult(rc, stdout_text, stderr_text) ==
    IF rc = 0 /\ Strip(stdout_text) # <<>>
    THEN ParseResponse(Strip(stdout_text))
    ELSE Return(ProcessErrorText(stderr_text, rc))

\* Catch without the handler: the exception leaves browser_automation.
Catch_Reraise(outcome) == outcome

\* The outer handler of lines 142-143: any other Exception becomes a text.
Catch(outcome) ==
    IF outcome.kind = "raise"
    THEN Return(SubprocessErrorText(outcome.text))
    ELSE outcome

(***************************************************************************)
(* The generated child script                                              *)
(***************************************************************************)
\* The values the f-string embeds in the script (lines 26, 48, 52).
ScriptContent(api_key, task_description, website_url) ==
    [api_key |-> api_key,
     task_description |-> task_description,
     website_url |-> website_url]

\* The dict main() prints. act is what the automation did: it raised an
\* exception whose str() is act.text, or returned a result whose str() is
\* act.text (a falsy result for the empty text).
MainResponse(api_key, act) ==
    IF api_key = <<>>
    THEN [success |-> FALSE, data |-> <<>>, error |-> <<"OPENAI_API_KEY not set">>]
    ELSE IF act.raised
    THEN [success |-> FALSE, data |-> <<>>, error |-> act.text]
    ELSE IF act.text # <<>>
    THEN [success |-> TRUE, data |-> act.text, error |-> <<>>]
    ELSE [success |-> FALSE, data |-> <<>>,
          error |-> <<"No data could be extracted from the page">>]

(***************************************************************************)
(* Bounds and input sets                                                   *)
(***************************************************************************)
\* Invocations of browser_automation in one behaviour.
MaxCalls == 2

\* Length of the text the automation yields (a result or an exception text).
MaxDataLen == 2

\* subprocess.run(..., timeout=180)
Timeout == 180

\* Time passes in steps of one minute or a minute and a half.
TickSteps == {60, 90}

Min(a, b) == IF a < b THEN a ELSE b

\* What the user may have typed when the script runs.
Queries == {<<>>, <<SPACE>>, <<TAB, NEWLINE>>, <<SPACE, "q", SPACE>>}

DefaultURL == <<"https://www.google.com">>
ExampleURL == <<"https://pandas.pydata.org/">>

UpperChar(c) ==
    CASE c = "n" -> "N"
      [] c = "o" -> "O"
      [] c = "e" -> "E"
      [] c = "u" -> "U"
      [] c = "l" -> "L"
      [] c = "a" -> "A"
      [] OTHER -> c

BothCases(c) == {c, UpperChar(c)}

\* The URLs the planner's structured output may carry: every spelling of
\* none, null and n/a, the empty text, a blank, and explicit URLs.
PlanURLs ==
    {<<a, b, c, d>> : a \in BothCases("n"), b \in BothCases("o"),
                      c \in BothCases("n"), d \in BothCases("e")}
    \cup {<<a, b, c, d>> : a \in BothCases("n"), b \in BothCases("u"),
                           c \in BothCases("l"), d \in BothCases("l")}
    \cup {<<a, "/", c>> : a \in BothCases("n"), c \in BothCases("a")}
    \cup {<<>>, <<SPACE>>, DefaultURL, ExampleURL, <<"n", "o", "n", "e", SPACE>>}

Plans ==
    [task_description : {<<"give the definition of pandas">>},
     website_url : PlanURLs,
     estimated_complexity : {<<"medium">>}]

\* Characters of the automation's texts: the ones json.dumps escapes and
\* one it does not.
DataChars == {QUOTE, BACKSLASH, NEWLINE, "n"}

\* What the automation library does in the child: raises or returns.
ActOutcomes == [raised : BOOLEAN, text : SeqsUpTo(DataChars, MaxDataLen)]

\* What else may arrive on the child's stdout before main() prints.
LogLines == {<<"INFO stagehand ready", NEWLINE>>}

\* What a child that never reaches main()'s print may write to stdout.
OtherOutputs ==
    { <<"oops">>,
      <<"line one", NEWLINE, "line two", NEWLINE>>,
      <<"42", NEWLINE>>,
      <<"null">>,
      <<QUOTE, "abc", QUOTE>>,
      <<"[", "1", "]">>,
      <<"{", "}">>,
      <<"{", QUOTE, "foo", QUOTE, ":", SPACE, "1", "}", NEWLINE>>,
      <<"{", QUOTE, "success", QUOTE, ":", SPACE, "true", "}", NEWLINE>>,
      <<"{", QUOTE, "success", QUOTE, ":", SPACE, "false", ",", SPACE,
        QUOTE, "data", QUOTE, ":", SPACE, QUOTE, QUOTE, "}", NEWLINE>>,
      <<"{", QUOTE, "success", QUOTE, ":", SPACE, "1", ",", SPACE,
        QUOTE, "data", QUOTE, ":", SPACE, "42", ",", SPACE,
        QUOTE, "error", QUOTE, ":", SPACE, "null", "}", NEWLINE>>,
      <<SPACE, NEWLINE>> }

StderrTexts == {<<>>, <<"Traceback (most recent call last):", NEWLINE>>}

ExitCodes == {0, 1}

\* Where the launch of lines 101-115 may fail.
LaunchFaults == {"none", "mkstemp", "write", "spawn"}

FaultMessage(fault) ==
    CASE fault = "mkstemp" -> <<"[Errno 28] No space left on device">>
      [] fault = "write" -> <<"'utf-8' codec can't encode character: surrogates not allowed">>
      [] OTHER -> <<"[Errno 12] Cannot allocate memory">>

(***************************************************************************)
(* State                                                                   *)
(***************************************************************************)
VARIABLES
    user_query,      \* the text input's value in the last script run
    button,          \* st.button's value in the last script run
    ui,              \* what the page shows: "info", "spinner", "success"
    hpc,             \* where the host is in run_streamlit_app and the flow
    flow,            \* <<>> or <<the BrowserAutomationFlow's state>>
    plan,            \* <<>> or <<the AutomationPlan the planner produced>>
    inputs,          \* <<>> or <<the dict plan_task returned>>
    OPENAI_API_KEY,  \* the environment variable
    bpc,             \* browser_automation: "idle", "waiting", "returned", "raised"
    calls,           \* invocations of browser_automation so far
    script_path,     \* the local script_path, 0 while unbound
    script,          \* <<>> or <<the content written to the script file>>
    tmpfiles,        \* the temporary script files that exist
    child,           \* "none", "running", "closing", "exited", "killed"
    elapsed,         \* seconds subprocess.run has waited
    stdout,          \* what the child has written to its stdout
    stderr,          \* what the child has written to its stderr
    returncode,      \* the child's exit status once exited
    printed,         \* <<>> or <<the dict main() printed>>
    ret              \* the text browser_automation returned

vars == <<user_query, button, ui, hpc, flow, plan, inputs, OPENAI_API_KEY,
          bpc, calls, script_path, script, tmpfiles, child, elapsed,
          stdout, stderr, returncode, printed, ret>>

hostVars == <<user_query, button, ui, hpc, flow, plan, inputs, OPENAI_API_KEY>>
procVars == <<child, elapsed, stdout, stderr, returncode, printed>>

Init ==
    /\ user_query = <<>>
    /\ button = FALSE
    /\ ui = "info"
    /\ hpc = "idle"
    /\ flow = <<>>
    /\ plan = <<>>
    /\ inputs = <<>>
    /\ OPENAI_API_KEY \in {<<>>, <<"sk-test">>}
    /\ bpc = "idle"
    /\ calls = 0
    /\ script_path = 0
    /\ script = <<>>
    /\ tmpfiles = {}
    /\ child = "none"
    /\ elapsed = 0
    /\ stdout = <<>>
    /\ stderr = <<>>
    /\ returncode = 0
    /\ printed = <<>>
    /\ ret = <<>>

(***************************************************************************)
(* agent.py                                                                *)
(***************************************************************************)
\* ShouldRun testing the query as typed, not stripped.
ShouldRun_NoStrip(clicked, query) == clicked /\ query # <<>>

\* if st.button("Run Automation") and user_query.strip():
ShouldRun(clicked, query) == clicked /\ Strip(query) # <<>>

\* One run of the Streamlit script up to the kickoff: the user has typed
\* query and has or has not pressed the button.
run_streamlit_app(query, clicked) ==
    /\ hpc = "idle"
    /\ user_query' = query
    /\ button' = clicked
    /\ flow' = IF ShouldRun(clicked, query)
               THEN <<[query |-> Strip(query), result |-> <<>>]>>
               ELSE <<>>
    /\ hpc' = IF ShouldRun(clicked, query) THEN "start_flow" ELSE "idle"
    /\ ui' = IF ShouldRun(clicked, query) THEN "spinner" ELSE "info"
    /\ UNCHANGED <<plan, inputs, OPENAI_API_KEY, bpc, calls, script_path,
                   script, tmpfiles, procVars, ret>>

start_flow ==
    /\ hpc = "start_flow"
    /\ hpc' = "plan_task"
    /\ UNCHANGED <<user_query, button, ui, flow, plan, inputs, OPENAI_API_KEY,
                   bpc, calls, script_path, script, tmpfiles, procVars, ret>>

\* EffectiveURL comparing the URL as given, without lower().
EffectiveURL_CaseSensitive(website_url) ==
    IF website_url = <<>>
       \/ website_url \in {<<>>, <<"n", "o", "n", "e">>,
                           <<"n", "u", "l", "l">>, <<"n", "/", "a">>}
    THEN <<"https://www.google.com">>
    ELSE website_url

\* Lines 131-134.
EffectiveURL(website_url) ==
    IF website_url = <<>>
       \/ Lower(website_url) \in {<<>>, <<"n", "o", "n", "e">>,
                                  <<"n", "u", "l", "l">>, <<"n", "/", "a">>}
    THEN DefaultURL
    ELSE website_url

\* The planner crew yields some plan p; plan_task returns the dict.
plan_task ==
    /\ hpc = "plan_task"
    /\ \E p \in Plans :
        /\ plan' = <<p>>
        /\ inputs' = <<[task_description |-> p.task_description,
                        website_url |-> EffectiveURL(p.website_url),
                        estimated_complexity |-> p.estimated_complexity]>>
    /\ hpc' = "handle_browser_automation"
    /\ UNCHANGED <<user_query, button, ui, flow, OPENAI_API_KEY,
                   bpc, calls, script_path, script, tmpfiles, procVars, ret>>

\* The automation stage builds its task from inputs and starts its crew.
handle_browser_automation ==
    /\ hpc = "handle_browser_automation"
    /\ hpc' = "automation_crew"
    /\ plan' = <<>>
    /\ UNCHANGED <<user_query, button, ui, flow, inputs, OPENAI_API_KEY,
                   bpc, calls, script_path, script, tmpfiles, procVars, ret>>

\* The automation crew ends with its AutomationResult; no tool call is
\* in flight.
automation_result ==
    /\ hpc = "automation_crew"
    /\ bpc = "idle"
    /\ hpc' = "synthesize_result"
    /\ inputs' = <<>>
    /\ UNCHANGED <<user_query, button, ui, flow, plan, OPENAI_API_KEY,
                   bpc, calls, script_path, script, tmpfiles, procVars, ret>>

\* The synthesis stage sets state.result; the page shows it.
synthesize_result ==
    /\ hpc = "synthesize_result"
    /\ flow' = <<[flow[1] EXCEPT !.result = <<"**Summary:**">>]>>
    /\ ui' = "success"
    /\ hpc' = "idle"
    /\ UNCHANGED <<user_query, button, plan, inputs, OPENAI_API_KEY,
                   bpc, calls, script_path, script, tmpfiles, procVars, ret>>

(***************************************************************************)
(* stage_hand_tool.py: browser_automation                                  *)
(***************************************************************************)
\* The agent calls the tool: lines 11-115, up to the wait for the child.
stagehand_browser_tool ==
    /\ hpc = "automation_crew"
    /\ bpc = "idle"
    /\ calls < MaxCalls
    /\ \E fault \in LaunchFaults :
        LET path == calls + 1
            content == ScriptContent(OPENAI_API_KEY,
                                     inputs[1].task_description,
                                     inputs[1].website_url)
            o == Catch(Raise(FaultMessage(fault)))
        IN  /\ calls' = path
            /\ tmpfiles' = IF fault = "mkstemp" THEN tmpfiles
                           ELSE tmpfiles \cup {path}
            /\ script' = IF fault \in {"mkstemp", "write"} THEN <<>>
                         ELSE <<content>>
            /\ script_path' = IF fault \in {"mkstemp", "write"} THEN 0 ELSE path
            /\ child' = IF fault = "none" THEN "running" ELSE "none"
            /\ bpc' = IF fault = "none" THEN "waiting"
                      ELSE IF o.kind = "return" THEN "returned" ELSE "raised"
            /\ ret' = IF fault = "none" THEN <<>> ELSE o.text
    /\ elapsed' = 0
    /\ stdout' = <<>>
    /\ stderr' = <<>>
    /\ returncode' = 0
    /\ printed' = <<>>
    /\ UNCHANGED hostVars

\* Time passes while subprocess.run waits.
Tick ==
    /\ bpc = "waiting"
    /\ child \in {"running", "closing"}
    /\ elapsed < Timeout
    /\ \E d \in TickSteps : elapsed' = Min(elapsed + d, Timeout)
    /\ UNCHANGED <<hostVars, bpc, calls, script_path, script, tmpfiles,
                   child, stdout, stderr, returncode, printed, ret>>

\* Something writes a log line to the child's stdout before main() prints.
child_log ==
    /\ bpc = "waiting"
    /\ child = "running"
    /\ elapsed < Timeout
    /\ stdout = <<>>
    /\ \E line \in LogLines : stdout' = line
    /\ UNCHANGED <<hostVars, bpc, calls, script_path, script, tmpfiles,
                   child, elapsed, stderr, returncode, printed, ret>>

\* The child's main() reaches one of its prints (script lines 23-86) and
\* enters its finally block.
main ==
    /\ bpc = "waiting"
    /\ child = "running"
    /\ elapsed < Timeout
    /\ \E act \in ActOutcomes :
        LET response == MainResponse(script[1].api_key, act)
        IN  /\ stdout' = stdout \o Dumps(response) \o <<NEWLINE>>
            /\ printed' = <<response>>
    /\ child' = "closing"
    /\ UNCHANGED <<hostVars, bpc, calls, script_path, script, tmpfiles,
                   elapsed, stderr, returncode, ret>>

\* The child writes something else to stdout instead of main()'s dict.
child_other_output ==
    /\ bpc = "waiting"
    /\ child = "running"
    /\ elapsed < Timeout
    /\ stdout = <<>>
    /\ \E o \in OtherOutputs : stdout' = o
    /\ child' = "closing"
    /\ UNCHANGED <<hostVars, bpc, calls, script_path, script, tmpfiles,
                   elapsed, stderr, returncode, printed, ret>>

\* The child terminates before the ceiling: after its output, or before it
\* has printed anything.
child_exit ==
    /\ bpc = "waiting"
    /\ child \in {"running", "closing"}
    /\ elapsed < Timeout
    /\ \E rc \in ExitCodes, err \in StderrTexts :
        /\ returncode' = rc
        /\ stderr' = err
    /\ child' = "exited"
    /\ UNCHANGED <<hostVars, bpc, calls, script_path, script, tmpfiles,
                   elapsed, stdout, printed, ret>>

\* subprocess.run returned: lines 117-134, and 142-143 for what they raise.
browser_automation_result ==
    /\ bpc = "waiting"
    /\ child = "exited"
    /\ \E unlinked \in BOOLEAN :
        tmpfiles' = IF unlinked THEN tmpfiles \ {script_path} ELSE tmpfiles
    /\ LET o == Catch(HandleResult(returncode, stdout, stderr))
       IN  /\ ret' = o.text
           /\ bpc' = IF o.kind = "return" THEN "returned" ELSE "raised"
    /\ elapsed' = 0
    /\ UNCHANGED <<hostVars, calls, script_path, script, child, stdout,
                   stderr, returncode, printed>>

\* browser_automation_timeout with TimeoutExpired left to the handler of
\* lines 142-143.
browser_automation_timeout_generic ==
    /\ bpc = "waiting"
    /\ child \in {"running", "closing"}
    /\ elapsed = Timeout
    /\ child' = "killed"
    /\ tmpfiles' = tmpfiles
    /\ ret' = SubprocessErrorText(<<"Command timed out after 180 seconds">>)
    /\ bpc' = "returned"
    /\ elapsed' = 0
    /\ UNCHANGED <<hostVars, calls, script_path, script, stdout, stderr,
                   returncode, printed>>

\* The ceiling is reached with the child alive: subprocess.run kills it and
\* raises TimeoutExpired; lines 136-141.
browser_automation_timeout ==
    /\ bpc = "waiting"
    /\ child \in {"running", "closing"}
    /\ elapsed = Timeout
    /\ child' = "killed"
    /\ \E unlinked \in BOOLEAN :
        tmpfiles' = IF unlinked THEN tmpfiles \ {script_path} ELSE tmpfiles
    /\ ret' = TimeoutText
    /\ bpc' = "returned"
    /\ elapsed' = 0
    /\ UNCHANGED <<hostVars, calls, script_path, script, stdout, stderr,
                   returncode, printed>>

\* The tool's text goes back to the agent.
tool_return ==
    /\ bpc = "returned"
    /\ bpc' = "idle"
    /\ script_path' = 0
    /\ script' = <<>>
    /\ child' = "none"
    /\ stdout' = <<>>
    /\ stderr' = <<>>
    /\ returncode' = 0
    /\ printed' = <<>>
    /\ ret' = <<>>
    /\ UNCHANGED <<hostVars, calls, tmpfiles, elapsed>>

Next ==
    \/ \E query \in Queries, clicked \in BOOLEAN : run_streamlit_app(query, clicked)
    \/ start_flow
    \/ plan_task
    \/ handle_browser_automation
    \/ automation_result
    \/ synthesize_result
    \/ stagehand_browser_tool
    \/ Tick
    \/ child_log
    \/ main
    \/ child_other_output
    \/ child_exit
    \/ browser_automation_result
    \/ browser_automation_timeout
    \/ tool_return

Spec == Init /\ [][Next]_vars

\* subprocess.run's timeout fires once the ceiling is reached.
FairSpec == Spec /\ WF_vars(browser_automation_timeout)

(***************************************************************************)
(* Properties                                                              *)
(***************************************************************************)
\* main() printed a dict and nothing else reached the child's stdout.
OnlyResponsePrinted ==
    /\ printed # <<>>
    /\ stdout = Dumps(printed[1]) \o <<NEWLINE>>

\* The child ended by itself with status 0 and the call has returned.
ReturnedAfterCleanExit ==
    /\ bpc = "returned"
    /\ child = "exited"
    /\ returncode = 0

\* C1: when an invocation of browser_automation has returned, whatever its
\* outcome, no temporary script file exists: neither the one it created nor
\* one an earlier invocation left behind.
C1_NoTempFileLeft == bpc = "returned" => tmpfiles = {}

\* C2 as stated: whenever main() printed a dict with success = true and
\* nonempty data, for every exit status, the returned text contains the
\* success wording and the data.
C2_Original ==
    (bpc = "returned" /\ printed # <<>> /\ printed[1].success
        /\ printed[1].data # <<>>)
    => (Contains(ret, SuccessWording) /\ Contains(ret, printed[1].data))

\* C2 amended: if main() printed a dict with success = true and nonempty
\* data, that line is all of the child's stdout, and the child exited with
\* status 0 before the ceiling, the returned text contains the success
\* wording and exactly the data.
C2_SuccessSurfaced ==
    (ReturnedAfterCleanExit /\ OnlyResponsePrinted /\ printed[1].success
        /\ printed[1].data # <<>>)
    => (Contains(ret, SuccessWording) /\ Contains(ret, printed[1].data))

C2_Witness ==
    /\ ReturnedAfterCleanExit
    /\ OnlyResponsePrinted
    /\ printed[1].success
    /\ printed[1].data = <<QUOTE, NEWLINE>>
    /\ ret = SuccessText(<<QUOTE, NEWLINE>>)

\* C3 as stated: whenever main() printed a dict with success = false, the
\* returned text contains the failure wording and the dict's error text.
C3_Original ==
    (bpc = "returned" /\ printed # <<>> /\ ~printed[1].success)
    => (Contains(ret, FailedWording) /\ Contains(ret, printed[1].error))

\* C3 amended: if main() printed a dict with success = false, that line is
\* all of the child's stdout, and the child exited with status 0 before the
\* ceiling, the returned text contains the failure wording and the dict's
\* error text.
C3_FailureSurfaced ==
    (ReturnedAfterCleanExit /\ OnlyResponsePrinted /\ ~printed[1].success)
    => (Contains(ret, FailedWording) /\ Contains(ret, printed[1].error))

C3_Witness ==
    /\ ReturnedAfterCleanExit
    /\ OnlyResponsePrinted
    /\ ~printed[1].success
    /\ printed[1].error = <<BACKSLASH, "n">>
    /\ ret = FailedText(<<BACKSLASH, "n">>)

\* An object with success, data and error fields.
IsExpectedStructure(text) ==
    LET p == Loads(text)
    IN  /\ p.ok
        /\ p.val.t = "obj"
        /\ HasKey(p.val, "success")
        /\ HasKey(p.val, "data")
        /\ HasKey(p.val, "error")

\* C4: whenever the child exited with status 0 and nonempty output that is
\* not an object with success, data and error fields, the returned text
\* contains the child's output (stripped of surrounding whitespace).
C4_RawOutputSurfaced ==
    (ReturnedAfterCleanExit /\ Strip(stdout) # <<>>
        /\ ~IsExpectedStructure(Strip(stdout)))
    => Contains(ret, Strip(stdout))

\* C5: once the ceiling is reached with the child still alive, the call
\* returns exactly the timeout message, with the child killed; what the
\* child had written is not in the result.
C5_TimeoutReturns ==
    (bpc = "waiting" /\ child \in {"running", "closing"} /\ elapsed = Timeout)
    ~> (bpc = "returned" /\ child = "killed" /\ ret = TimeoutText)

C5_Witness ==
    /\ bpc = "returned"
    /\ child = "killed"
    /\ printed # <<>>
    /\ printed[1].success
    /\ ret = TimeoutText

\* C6: if the child terminated having written nothing to stdout, the
\* returned text contains its stderr when that is nonempty, and its exit
\* code otherwise.
C6_CrashSurfaced ==
    (bpc = "returned" /\ child = "exited" /\ stdout = <<>>)
    => /\ stderr # <<>> => Contains(ret, stderr)
       /\ stderr = <<>> => Contains(ret, <<ToString(returncode)>>)

C6_Witness ==
    /\ bpc = "returned"
    /\ child = "exited"
    /\ stdout = <<>>
    /\ stderr = <<>>
    /\ returncode = 1
    /\ ret = <<"Process Error: ", "Process exited with code ", "1">>

\* How every text browser_automation returns begins.
ResultPrefixes ==
    {SuccessWording, FailedWording, <<"Browser Automation Output: ">>,
     <<"Process Error: ">>, TimeoutText, <<"Subprocess Error: ">>}

C8_BlankQueryNeverRuns ==
    [][ /\ (hpc = "idle" /\ Strip(user_query') = <<>>)
            => (hpc' = "idle" /\ flow' = <<>> /\ calls' = calls
                /\ child' = "none")
        /\ (hpc = "idle" /\ hpc' # "idle")
            => (button' /\ Strip(user_query') # <<>> /\ flow' # <<>>)
        /\ (child' # "none") => (flow' # <<>> /\ hpc' = "automation_crew")
      ]_vars

C8_Witness ==
    /\ button
    /\ user_query = <<TAB, NEWLINE>>
    /\ ui = "info"
    /\ hpc = "idle"
    /\ flow = <<>>

\* The texts that stand for "no URL".
Placeholders == {<<"n", "o", "n", "e">>, <<"n", "u", "l", "l">>, <<"n", "/", "a">>}

\* Empty, or a placeholder in any letter case.
NoExplicitURL(u) ==
    \/ u = <<>>
    \/ \E p \in Placeholders :
        /\ Len(u) = Len(p)
        /\ \A i \in 1..Len(p) : u[i] \in BothCases(p[i])

\* C9: for every plan, the URL plan_task passes on is nonempty; it is the
\* default when the plan's URL is empty or a placeholder in any letter
\* case, and the plan's URL unchanged otherwise.
C9_EffectiveURL ==
    plan # <<>> =>
        /\ inputs # <<>>
        /\ inputs[1].website_url # <<>>
        /\ NoExplicitURL(plan[1].website_url)
            => inputs[1].website_url = DefaultURL
        /\ ~NoExplicitURL(plan[1].website_url)
            => inputs[1].website_url = plan[1].website_url

C9_Witness ==
    /\ plan # <<>>
    /\ plan[1].website_url = <<"N", "u", "L", "l">>
    /\ inputs[1].website_url = DefaultURL

\* C10: every dict main() prints with success = false has a nonempty error
\* text and empty data.
C10_FailureExplained ==
    (printed # <<>> /\ ~printed[1].success)
    => (printed[1].error # <<>> /\ printed[1].data = <<>>)

=============================================================================
